---- MODULE Spec2Model ----
(***************************************************************************)
(* Model of src/app.py, the Streamlit heat-exchanger design script: the    *)
(* LMTD / effectiveness-NTU calculations, the performance classification   *)
(* of effectiveness_gauge and the linear temperature profile.              *)
(*                                                                         *)
(* Numbers are Python floats (IEEE-754 binary64, round to nearest even),   *)
(* modelled exactly: a finite float is sign * m * 2^e with m an odd        *)
(* natural of at most Precision bits, kept as a little-endian sequence of  *)
(* base-2^15 digits because the significand does not fit a TLC integer.    *)
(***************************************************************************)
EXTENDS Integers, Sequences, FiniteSets, TLC

-----------------------------------------------------------------------------
(* Naturals of arbitrary size: little-endian digit sequences, <<>> is 0.   *)

Base == 2^15

RECURSIVE BNorm(_)
BNorm(a) ==
    IF a = <<>> THEN a
    ELSE IF a[Len(a)] = 0 THEN BNorm(SubSeq(a, 1, Len(a) - 1)) ELSE a

RECURSIVE BFromNat(_)
BFromNat(n) == IF n = 0 THEN <<>> ELSE <<n % Base>> \o BFromNat(n \div Base)

RECURSIVE BAddC(_, _, _)
BAddC(a, b, c) ==
    IF a = <<>> /\ b = <<>> THEN (IF c = 0 THEN <<>> ELSE <<c>>)
    ELSE LET x == IF a = <<>> THEN 0 ELSE Head(a)
             y == IF b = <<>> THEN 0 ELSE Head(b)
             t == x + y + c
         IN <<t % Base>> \o BAddC(IF a = <<>> THEN a ELSE Tail(a),
                                  IF b = <<>> THEN b ELSE Tail(b),
                                  t \div Base)

BAdd(a, b) == BAddC(a, b, 0)

\* a - b - c for a >= b + c, not normalised
RECURSIVE BSubB(_, _, _)
BSubB(a, b, c) ==
    IF a = <<>> THEN <<>>
    ELSE LET y == IF b = <<>> THEN 0 ELSE Head(b)
             t == Head(a) - y - c
         IN <<t % Base>> \o BSubB(Tail(a),
                                  IF b = <<>> THEN b ELSE Tail(b),
                                  IF t < 0 THEN 1 ELSE 0)

BSub(a, b) == BNorm(BSubB(a, b, 0))

\* -1, 0, 1 as a < b, a = b, a > b (both normalised)
RECURSIVE BCmpAt(_, _, _)
BCmpAt(a, b, i) ==
    IF i = 0 THEN 0
    ELSE IF a[i] < b[i] THEN -1
    ELSE IF a[i] > b[i] THEN 1
    ELSE BCmpAt(a, b, i - 1)

BCmp(a, b) ==
    IF Len(a) < Len(b) THEN -1
    ELSE IF Len(a) > Len(b) THEN 1
    ELSE BCmpAt(a, b, Len(a))

RECURSIVE BMulSmall(_, _, _)
BMulSmall(a, k, c) ==
    IF a = <<>> THEN (IF c = 0 THEN <<>> ELSE <<c>>)
    ELSE LET t == Head(a) * k + c
         IN <<t % Base>> \o BMulSmall(Tail(a), k, t \div Base)

RECURSIVE BMul(_, _)
BMul(a, b) ==
    IF a = <<>> \/ b = <<>> THEN <<>>
    ELSE LET hi == BMul(a, Tail(b))
         IN BAdd(BMulSmall(a, Head(b), 0),
                 IF hi = <<>> THEN hi ELSE <<0>> \o hi)

\* quotient of a by the digit k, from the top digit down, r the running remainder
RECURSIVE BDivSmallR(_, _, _)
BDivSmallR(a, k, r) ==
    IF a = <<>> THEN <<>>
    ELSE LET n == Len(a)
             cur == r * Base + a[n]
         IN Append(BDivSmallR(SubSeq(a, 1, n - 1), k, cur % k), cur \div k)

BDivSmall(a, k) == BNorm(BDivSmallR(a, k, 0))

RECURSIVE BModSmallR(_, _, _)
BModSmallR(a, k, r) ==
    IF a = <<>> THEN r
    ELSE BModSmallR(SubSeq(a, 1, Len(a) - 1), k, (r * Base + a[Len(a)]) % k)

BModSmall(a, k) == BModSmallR(a, k, 0)

BShl(a, k) ==
    IF a = <<>> THEN a
    ELSE [i \in 1..(k \div 15) |-> 0] \o BMulSmall(a, 2^(k % 15), 0)

BShr(a, k) ==
    IF Len(a) <= k \div 15 THEN <<>>
    ELSE BDivSmall(SubSeq(a, (k \div 15) + 1, Len(a)), 2^(k % 15))

RECURSIVE IntBitLen(_)
IntBitLen(n) == IF n = 0 THEN 0 ELSE 1 + IntBitLen(n \div 2)

BBitLen(a) == IF a = <<>> THEN 0 ELSE 15 * (Len(a) - 1) + IntBitLen(a[Len(a)])

\* the largest digit d in lo..hi with b * d <= r
RECURSIVE QuoDigit(_, _, _, _)
QuoDigit(r, b, lo, hi) ==
    IF lo = hi THEN lo
    ELSE LET mid == (lo + hi + 1) \div 2
         IN IF BCmp(BMulSmall(b, mid, 0), r) <= 0
            THEN QuoDigit(r, b, mid, hi)
            ELSE QuoDigit(r, b, lo, mid - 1)

\* <<quotient, remainder>> of a by b # 0: long division from digit i down
RECURSIVE BDivLoop(_, _, _, _, _)
BDivLoop(a, b, i, q, r) ==
    IF i = 0 THEN <<BNorm(q), r>>
    ELSE LET r2 == BNorm(<<a[i]>> \o r)
             d == QuoDigit(r2, b, 0, Base - 1)
         IN BDivLoop(a, b, i - 1, <<d>> \o q,
                     IF d = 0 THEN r2 ELSE BSub(r2, BMulSmall(b, d, 0)))

BDivMod(a, b) ==
    IF Len(b) = 1
    THEN <<BDivSmall(a, b[1]), BFromNat(BModSmall(a, b[1]))>>
    ELSE BDivLoop(a, b, Len(a), <<>>, <<>>)

-----------------------------------------------------------------------------
(* Python float: IEEE-754 binary64 with round-to-nearest-even.  A finite   *)
(* float is [s, m, e] of value (-1)^s * m * 2^e, m odd (canonical), and    *)
(* zero is FZero: Python's == does not tell -0.0 from 0.0 and nothing in   *)
(* the script does.  The inputs of the model stay far from the exponent    *)
(* limits, so overflow and subnormals are not modelled.                    *)

Precision == 53

FZero == [s |-> 0, m |-> <<>>, e |-> 0]

IsZero(x) == x.m = <<>>

RECURSIVE TrailingZeros(_)
TrailingZeros(n) == IF n % 2 = 1 THEN 0 ELSE 1 + TrailingZeros(n \div 2)

\* the canonical form of (-1)^s * N * 2^e
RECURSIVE Canon(_, _, _)
Canon(s, N, e) ==
    IF N = <<>> THEN FZero
    ELSE IF Head(N) = 0 THEN Canon(s, Tail(N), e + 15)
    ELSE LET t == TrailingZeros(Head(N))
         IN [s |-> s, m |-> BShr(N, t), e |-> e + t]

\* (-1)^s * (N + a fraction in (0,1) when sticky) * 2^e rounded to Precision
\* bits, ties to even; sticky only ever comes with more than Precision bits
Round(s, N, e, sticky) ==
    LET L == BBitLen(N)
    IN IF L <= Precision THEN Canon(s, N, e)
       ELSE LET k == L - Precision
                q == BShr(N, k)
                rem == BSub(N, BShl(q, k))
                c == BCmp(rem, BShl(<<1>>, k - 1))
                up == c = 1 \/ (c = 0 /\ (sticky \/ q[1] % 2 = 1))
            IN Canon(s, IF up THEN BAdd(q, <<1>>) ELSE q, e + k)

FNeg(x) == IF IsZero(x) THEN x ELSE [x EXCEPT !.s = 1 - x.s]

FAbs(x) == [x EXCEPT !.s = 0]

\* -1, 0, 1 as |x| < |y|, |x| = |y|, |x| > |y|
MagCmp(x, y) ==
    IF IsZero(x) THEN (IF IsZero(y) THEN 0 ELSE -1)
    ELSE IF IsZero(y) THEN 1
    ELSE LET lx == BBitLen(x.m) + x.e
             ly == BBitLen(y.m) + y.e
         IN IF lx < ly THEN -1
            ELSE IF lx > ly THEN 1
            ELSE LET e == IF x.e < y.e THEN x.e ELSE y.e
                 IN BCmp(BShl(x.m, x.e - e), BShl(y.m, y.e - e))

FCmp(x, y) ==
    IF IsZero(x) /\ IsZero(y) THEN 0
    ELSE IF IsZero(x) THEN (IF y.s = 0 THEN -1 ELSE 1)
    ELSE IF IsZero(y) THEN (IF x.s = 0 THEN 1 ELSE -1)
    ELSE IF x.s # y.s THEN (IF x.s = 0 THEN 1 ELSE -1)
    ELSE IF x.s = 0 THEN MagCmp(x, y) ELSE MagCmp(y, x)

FLt(x, y) == FCmp(x, y) < 0
FLe(x, y) == FCmp(x, y) <= 0
FGe(x, y) == FCmp(x, y) >= 0
FGt(x, y) == FCmp(x, y) > 0

FAdd(x, y) ==
    IF IsZero(x) THEN y
    ELSE IF IsZero(y) THEN x
    ELSE LET e == IF x.e < y.e THEN x.e ELSE y.e
             X == BShl(x.m, x.e - e)
             Y == BShl(y.m, y.e - e)
             c == BCmp(X, Y)
         IN IF x.s = y.s THEN Round(x.s, BAdd(X, Y), e, FALSE)
            ELSE IF c = 0 THEN FZero
            ELSE IF c > 0 THEN Round(x.s, BSub(X, Y), e, FALSE)
            ELSE Round(y.s, BSub(Y, X), e, FALSE)

FSub(x, y) == FAdd(x, FNeg(y))

FMul(x, y) ==
    IF IsZero(x) \/ IsZero(y) THEN FZero
    ELSE Round((x.s + y.s) % 2, BMul(x.m, y.m), x.e + y.e, FALSE)

\* x / y for y # 0: the quotient to Precision + 2 bits or more, the
\* remainder as the sticky bit
FDiv(x, y) ==
    IF IsZero(x) THEN FZero
    ELSE LET sh == Precision + 2 + BBitLen(y.m) - BBitLen(x.m)
             qr == BDivMod(BShl(x.m, sh), y.m)
         IN Round((x.s + y.s) % 2, qr[1], x.e - y.e - sh, qr[2] # <<>>)

\* the float of an integer literal, and of the decimal literal n / 10^d
FromInt(n) == IF n < 0 THEN Canon(1, BFromNat(-n), 0) ELSE Canon(0, BFromNat(n), 0)

FromDec(n, d) == FDiv(FromInt(n), FromInt(10^d))

-----------------------------------------------------------------------------
(* Values of the script's variables.  A Python float is Py(f).  What       *)
(* passes through numpy is a numpy.float64: Np(f) when its value is known, *)
(* NaN, Inf (either sign), or NpSym(op, a, b) for a finite nonzero value   *)
(* that depends on np.log, which is kept as an uninterpreted function:     *)
(* equal terms are equal numbers.  Err(w) is an exception being raised.    *)

Unset == [k |-> "unset"]
Py(f) == [k |-> "py", v |-> f]
Np(f) == [k |-> "np", v |-> f]
NpSym(op, a, b) == [k |-> "npsym", op |-> op, a |-> a, b |-> b]
NaN == [k |-> "nan"]
Inf == [k |-> "inf"]
Err(w) == [k |-> "err", what |-> w]
Arr(seq) == [k |-> "arr", v |-> seq]
Str(str) == [k |-> "str", v |-> str]

IsKnown(x) == x.k \in {"py", "np"}
IsZeroV(x) == IsKnown(x) /\ IsZero(x.v)

\* numpy arithmetic: a division by zero or an invalid operation warns and
\* yields inf or nan, it does not raise
NpMul(x, y) ==
    IF x.k = "nan" \/ y.k = "nan" THEN NaN
    ELSE IF x.k = "inf" \/ y.k = "inf"
         THEN (IF IsZeroV(x) \/ IsZeroV(y) THEN NaN ELSE Inf)
    ELSE IF IsZeroV(x) \/ IsZeroV(y) THEN Np(FZero)
    ELSE IF IsKnown(x) /\ IsKnown(y) THEN Np(FMul(x.v, y.v))
    ELSE NpSym("mul", x, y)

NpDiv(x, y) ==
    IF x.k = "nan" \/ y.k = "nan" THEN NaN
    ELSE IF IsZeroV(y) THEN (IF IsZeroV(x) THEN NaN ELSE Inf)
    ELSE IF y.k = "inf" THEN (IF x.k = "inf" THEN NaN ELSE Np(FZero))
    ELSE IF x.k = "inf" THEN Inf
    ELSE IF IsZeroV(x) THEN Np(FZero)
    ELSE IF IsKnown(x) /\ IsKnown(y) THEN Np(FDiv(x.v, y.v))
    ELSE NpSym("div", x, y)

\* np.log of a Python float: nan below zero, -inf at zero, 0 at one
NpLog(r) ==
    IF r.k = "err" THEN r
    ELSE IF IsZero(r.v) THEN Inf
    ELSE IF r.v.s = 1 THEN NaN
    ELSE IF r.v = FromInt(1) THEN Np(FZero)
    ELSE NpSym("log", r, r)

\* the operators of the script: operands are evaluated left to right, two
\* Python floats follow Python (ZeroDivisionError), anything else numpy
Add(x, y) ==
    IF x.k = "err" THEN x ELSE IF y.k = "err" THEN y ELSE Py(FAdd(x.v, y.v))

Sub(x, y) ==
    IF x.k = "err" THEN x ELSE IF y.k = "err" THEN y ELSE Py(FSub(x.v, y.v))

Mul(x, y) ==
    IF x.k = "err" THEN x
    ELSE IF y.k = "err" THEN y
    ELSE IF x.k = "py" /\ y.k = "py" THEN Py(FMul(x.v, y.v))
    ELSE NpMul(x, y)

Div(x, y) ==
    IF x.k = "err" THEN x
    ELSE IF y.k = "err" THEN y
    ELSE IF x.k = "py" /\ y.k = "py"
         THEN (IF IsZero(y.v) THEN Err("ZeroDivisionError") ELSE Py(FDiv(x.v, y.v)))
    ELSE NpDiv(x, y)

Abs(x) == IF x.k = "err" THEN x ELSE Py(FAbs(x.v))

\* min(a, b) and max(a, b) of Python: the first argument wins a tie
Min(x, y) ==
    IF x.k = "err" THEN x ELSE IF y.k = "err" THEN y
    ELSE IF FLt(y.v, x.v) THEN y ELSE x

Max(x, y) ==
    IF x.k = "err" THEN x ELSE IF y.k = "err" THEN y
    ELSE IF FGt(y.v, x.v) THEN y ELSE x

-----------------------------------------------------------------------------
(* The namespace of one run of the script.  exc is the exception that      *)
(* ended the run, log_mean records that the branch of line 181 (the      *)
(* division dT1 / dT2 and np.log) was taken.                               *)

Names ==
    {"Q_hot", "Q_cold", "Q_avg", "Q", "dT1", "dT2", "LMTD", "A", "C_hot", "C_cold",
     "C_min", "C_max", "C_ratio", "Q_max", "effectiveness", "NTU",
     "heat_balance_error", "gauge_effectiveness", "label", "color", "x", "Th", "Tc"}

Fresh ==
    [n \in Names \cup {"exc", "log_mean"} |->
        IF n = "exc" THEN Str("none")
        ELSE IF n = "log_mean" THEN Str("no")
        ELSE Unset]

\* reading a name that no statement has bound yet raises NameError
V(env, n) == IF env[n].k = "unset" THEN Err("NameError") ELSE env[n]

\* n = val; a raising right-hand side ends the run, and nothing runs after
Set(env, n, val) ==
    IF env.exc # Str("none") THEN env
    ELSE IF val.k = "err" THEN [env EXCEPT !.exc = Str(val.what)]
    ELSE [env EXCEPT ![n] = val]

Raised(env) == env.exc # Str("none")

Counterflow == "Counterflow"
ParallelFlow == "Parallel Flow"

\* a slip: the cold duty taken with the hot stream's flow rate
HeatDutyHotFlowForCold(inp, env) ==
    LET e1 == Set(env, "Q_hot",
                  Mul(Mul(inp.m_hot, inp.Cp_hot), Sub(inp.Th_in, inp.Th_out)))
        e2 == Set(e1, "Q_cold",
                  Mul(Mul(inp.m_hot, inp.Cp_cold), Sub(inp.Tc_out, inp.Tc_in)))
        e3 == Set(e2, "Q_avg",
                  Div(Add(V(e2, "Q_hot"), V(e2, "Q_cold")), Py(FromInt(2))))
    IN Set(e3, "Q", Mul(V(e3, "Q_avg"), Py(FromInt(1000))))

\* lines 165-168
HeatDuty(inp, env) ==
    LET e1 == Set(env, "Q_hot",
                  Mul(Mul(inp.m_hot, inp.Cp_hot), Sub(inp.Th_in, inp.Th_out)))
        e2 == Set(e1, "Q_cold",
                  Mul(Mul(inp.m_cold, inp.Cp_cold), Sub(inp.Tc_out, inp.Tc_in)))
        e3 == Set(e2, "Q_avg",
                  Div(Add(V(e2, "Q_hot"), V(e2, "Q_cold")), Py(FromInt(2))))
    IN Set(e3, "Q", Mul(V(e3, "Q_avg"), Py(FromInt(1000))))

\* a slip: the counterflow dT1 taken at the hot outlet
TemperatureDifferencesHotOutlet(inp, env) ==
    IF inp.configuration = Counterflow
    THEN Set(Set(env, "dT1", Sub(inp.Th_out, inp.Tc_out)),
             "dT2", Sub(inp.Th_out, inp.Tc_in))
    ELSE Set(Set(env, "dT1", Sub(inp.Th_in, inp.Tc_in)),
             "dT2", Sub(inp.Th_out, inp.Tc_out))

\* lines 171-176
TemperatureDifferences(inp, env) ==
    IF inp.configuration = Counterflow
    THEN Set(Set(env, "dT1", Sub(inp.Th_in, inp.Tc_out)),
             "dT2", Sub(inp.Th_out, inp.Tc_in))
    ELSE Set(Set(env, "dT1", Sub(inp.Th_in, inp.Tc_in)),
             "dT2", Sub(inp.Th_out, inp.Tc_out))

Tolerance == FromDec(1, 6)

\* a slip: the logarithmic mean without the guard of line 178
LogMeanUnguarded(env) ==
    IF Raised(env) THEN env
    ELSE Set([env EXCEPT !.log_mean = Str("yes")], "LMTD",
             Div(Sub(V(env, "dT1"), V(env, "dT2")),
                 NpLog(Div(V(env, "dT1"), V(env, "dT2")))))

\* lines 178-181
LogMean(env) ==
    LET d == Abs(Sub(V(env, "dT1"), V(env, "dT2")))
    IN IF Raised(env) THEN env
       ELSE IF d.k = "err" THEN Set(env, "LMTD", d)
       ELSE IF FLt(d.v, Tolerance) THEN Set(env, "LMTD", V(env, "dT1"))
       ELSE Set([env EXCEPT !.log_mean = Str("yes")], "LMTD",
                Div(Sub(V(env, "dT1"), V(env, "dT2")),
                    NpLog(Div(V(env, "dT1"), V(env, "dT2")))))

\* lines 170-181, the step "LMTD"
Lmtd(inp, env) == LogMean(TemperatureDifferences(inp, env))

\* line 184
Area(inp, env) == Set(env, "A", Div(V(env, "Q"), Mul(inp.U, V(env, "LMTD"))))

\* a slip: the ratio taken upside down
CapacityRatesInverted(inp, env) ==
    LET e1 == Set(env, "C_hot", Mul(Mul(inp.m_hot, inp.Cp_hot), Py(FromInt(1000))))
        e2 == Set(e1, "C_cold", Mul(Mul(inp.m_cold, inp.Cp_cold), Py(FromInt(1000))))
        e3 == Set(e2, "C_min", Min(V(e2, "C_hot"), V(e2, "C_cold")))
        e4 == Set(e3, "C_max", Max(V(e3, "C_hot"), V(e3, "C_cold")))
    IN Set(e4, "C_ratio", Div(V(e4, "C_max"), V(e4, "C_min")))

\* lines 187-191
CapacityRates(inp, env) ==
    LET e1 == Set(env, "C_hot", Mul(Mul(inp.m_hot, inp.Cp_hot), Py(FromInt(1000))))
        e2 == Set(e1, "C_cold", Mul(Mul(inp.m_cold, inp.Cp_cold), Py(FromInt(1000))))
        e3 == Set(e2, "C_min", Min(V(e2, "C_hot"), V(e2, "C_cold")))
        e4 == Set(e3, "C_max", Max(V(e3, "C_hot"), V(e3, "C_cold")))
    IN Set(e4, "C_ratio", Div(V(e4, "C_min"), V(e4, "C_max")))

\* lines 194-195
Effectiveness(inp, env) ==
    LET e1 == Set(env, "Q_max", Mul(V(env, "C_min"), Sub(inp.Th_in, inp.Tc_in)))
    IN Set(e1, "effectiveness", Div(V(e1, "Q"), V(e1, "Q_max")))

\* line 198
Ntu(inp, env) == Set(env, "NTU", Div(Mul(inp.U, V(env, "A")), V(env, "C_min")))

\* a slip: the mismatch taken relative to Q_max instead of Q_avg
HeatBalanceErrorOverQmax(inp, env) ==
    Set(env, "heat_balance_error",
        Mul(Div(Abs(Sub(V(env, "Q_hot"), V(env, "Q_cold"))), V(env, "Q_max")),
            Py(FromInt(100))))

\* line 201
HeatBalanceError(inp, env) ==
    Set(env, "heat_balance_error",
        Mul(Div(Abs(Sub(V(env, "Q_hot"), V(env, "Q_cold"))), V(env, "Q_avg")),
            Py(FromInt(100))))

\* lines 165-201 in the order of the script
Calculations(inp) ==
    HeatBalanceError(inp, Ntu(inp, Effectiveness(inp, CapacityRates(inp,
        Area(inp, Lmtd(inp, HeatDuty(inp, Fresh)))))))

-----------------------------------------------------------------------------
(* The gauge and the temperature profile.                                  *)

\* a slip: > for >= at the thresholds
effectiveness_gauge_strict(effectiveness) ==
    IF FGt(effectiveness.v, FromInt(80)) THEN [label |-> "Excellent", color |-> "green"]
    ELSE IF FGt(effectiveness.v, FromInt(60)) THEN [label |-> "Good", color |-> "limegreen"]
    ELSE IF FGt(effectiveness.v, FromInt(40)) THEN [label |-> "Fair", color |-> "orange"]
    ELSE [label |-> "Poor", color |-> "red"]

\* lines 15-26, effectiveness a percentage
effectiveness_gauge(effectiveness) ==
    IF FGe(effectiveness.v, FromInt(80)) THEN [label |-> "Excellent", color |-> "green"]
    ELSE IF FGe(effectiveness.v, FromInt(60)) THEN [label |-> "Good", color |-> "limegreen"]
    ELSE IF FGe(effectiveness.v, FromInt(40)) THEN [label |-> "Fair", color |-> "orange"]
    ELSE [label |-> "Poor", color |-> "red"]

\* lines 205-209: the argument effectiveness * 100 is bound to the parameter
CallGauge(inp, env) ==
    Set(env, "gauge_effectiveness", Mul(V(env, "effectiveness"), Py(FromInt(100))))

\* lines 15-26 in the run
GaugeBody(inp, env) ==
    LET g == effectiveness_gauge(V(env, "gauge_effectiveness"))
    IN Set(Set(env, "label", Str(g.label)), "color", Str(g.color))

NumPoints == 50

\* np.linspace(0, 1, NumPoints): arange(NumPoints) * (1 / (NumPoints - 1)),
\* and the last element set to the stop value
Linspace ==
    LET step == FDiv(FromInt(1), FromInt(NumPoints - 1))
    IN [i \in 1..NumPoints |->
          IF i = NumPoints THEN FromInt(1) ELSE FMul(FromInt(i - 1), step)]

\* a slip: the counterflow cold side drawn like the parallel one
TemperatureProfileColdForward(inp, env) ==
    LET x == Linspace
        dTh == FSub(inp.Th_in.v, inp.Th_out.v)
        dTc == FSub(inp.Tc_out.v, inp.Tc_in.v)
        Th == [i \in 1..Len(x) |-> FSub(inp.Th_in.v, FMul(dTh, x[i]))]
        Tc == [i \in 1..Len(x) |-> FAdd(inp.Tc_in.v, FMul(dTc, x[i]))]
    IN Set(Set(Set(env, "x", Arr(x)), "Th", Arr(Th)), "Tc", Arr(Tc))

\* lines 237-244
TemperatureProfile(inp, env) ==
    LET x == Linspace
        dTh == FSub(inp.Th_in.v, inp.Th_out.v)
        dTc == FSub(inp.Tc_out.v, inp.Tc_in.v)
        Th == [i \in 1..Len(x) |-> FSub(inp.Th_in.v, FMul(dTh, x[i]))]
        Tc == IF inp.configuration = Counterflow
              THEN [i \in 1..Len(x) |-> FSub(inp.Tc_out.v, FMul(dTc, x[i]))]
              ELSE [i \in 1..Len(x) |-> FAdd(inp.Tc_in.v, FMul(dTc, x[i]))]
    IN Set(Set(Set(env, "x", Arr(x)), "Th", Arr(Th)), "Tc", Arr(Tc))

-----------------------------------------------------------------------------
(* Inputs: the values of the number_input widgets and of the radio.        *)

\* the defaults of lines 108-157, the radio on its first option
Defaults ==
    [configuration |-> Counterflow,
     Th_in |-> Py(FromInt(150)), Th_out |-> Py(FromInt(90)),
     m_hot |-> Py(FromDec(25, 1)), Cp_hot |-> Py(FromDec(418, 2)),
     Tc_in |-> Py(FromInt(25)), Tc_out |-> Py(FromInt(70)),
     m_cold |-> Py(FromInt(3)), Cp_cold |-> Py(FromDec(418, 2)),
     U |-> Py(FromInt(500))]

\* what the user may enter in each widget
Widgets ==
    [configuration |-> {Counterflow, ParallelFlow},
     Th_in |-> {Py(FromInt(150)), Py(FromInt(25))},
     Th_out |-> {Py(FromInt(90)), Py(FromDec(401, 1)), Py(FromInt(150)), Py(FromInt(25))},
     m_hot |-> {Py(FromDec(25, 1)), Py(FromInt(3)), Py(FromDec(35, 1)), Py(FZero)},
     Cp_hot |-> {Py(FromDec(418, 2))},
     Tc_in |-> {Py(FromInt(25))},
     Tc_out |-> {Py(FromInt(70)), Py(FromInt(75)), Py(FromInt(85)),
                 Py(FromDec(850000005, 7)), Py(FromInt(25))},
     m_cold |-> {Py(FromInt(3))},
     Cp_cold |-> {Py(FromDec(418, 2))},
     U |-> {Py(FromInt(500)), Py(FZero)}]

Inputs ==
    [configuration : Widgets.configuration,
     Th_in : Widgets.Th_in, Th_out : Widgets.Th_out,
     m_hot : Widgets.m_hot, Cp_hot : Widgets.Cp_hot,
     Tc_in : Widgets.Tc_in, Tc_out : Widgets.Tc_out,
     m_cold : Widgets.m_cold, Cp_cold : Widgets.Cp_cold,
     U : Widgets.U]

-----------------------------------------------------------------------------
(* One run of the script, statement group by statement group; a change of  *)
(* a widget reruns the script from the top with a fresh namespace.         *)

VARIABLES inp, env, pc, done, cur

vars == <<inp, env, pc, done, cur>>

Init ==
    /\ inp = Defaults
    /\ env = Fresh
    /\ pc = "HeatDuty"
    /\ done = {}
    /\ cur = "none"

\* the statement group at pc runs; an exception ends the run
Run(step, e, next) ==
    /\ pc = step
    /\ env' = e
    /\ pc' = IF Raised(e) THEN "raised" ELSE next
    /\ done' = done \cup {step}
    /\ cur' = step
    /\ UNCHANGED inp

DoHeatDuty == Run("HeatDuty", HeatDuty(inp, env), "Lmtd")
DoLmtd == Run("Lmtd", Lmtd(inp, env), "Area")
DoArea == Run("Area", Area(inp, env), "CapacityRates")
DoCapacityRates == Run("CapacityRates", CapacityRates(inp, env), "Effectiveness")
DoEffectiveness == Run("Effectiveness", Effectiveness(inp, env), "Ntu")
DoNtu == Run("Ntu", Ntu(inp, env), "HeatBalanceError")
DoHeatBalanceError == Run("HeatBalanceError", HeatBalanceError(inp, env), "CallGauge")
DoCallGauge == Run("CallGauge", CallGauge(inp, env), "GaugeBody")
DoGaugeBody == Run("GaugeBody", GaugeBody(inp, env), "TemperatureProfile")
DoTemperatureProfile == Run("TemperatureProfile", TemperatureProfile(inp, env), "done")

\* the user changes one widget, and the script runs again from the top
Rerun ==
    /\ pc \in {"done", "raised"}
    /\ \E f \in DOMAIN Widgets :
          \E v \in Widgets[f] : inp' = [inp EXCEPT ![f] = v]
    /\ env' = Fresh
    /\ pc' = "HeatDuty"
    /\ done' = {}
    /\ cur' = "none"

Next ==
    \/ DoHeatDuty
    \/ DoLmtd
    \/ DoArea
    \/ DoCapacityRates
    \/ DoEffectiveness
    \/ DoNtu
    \/ DoHeatBalanceError
    \/ DoCallGauge
    \/ DoGaugeBody
    \/ DoTemperatureProfile
    \/ Rerun

Spec == Init /\ [][Next]_vars

-----------------------------------------------------------------------------
(* effectiveness_gauge as a function of its argument alone: it is called   *)
(* with a percentage and returns.                                          *)

MaxPct == 120

\* percentages in steps of 1/8, from -MaxPct to MaxPct
Percentages == {FDiv(FromInt(j), FromInt(8)) : j \in (-8 * MaxPct)..(8 * MaxPct)}

InitGauge ==
    /\ inp = Defaults
    /\ env = Fresh
    /\ pc = "CallGauge"
    /\ done = {}
    /\ cur = "none"

GaugeCalled ==
    /\ pc = "CallGauge"
    /\ \E p \in Percentages : env' = Set(Fresh, "gauge_effectiveness", Py(p))
    /\ pc' = "GaugeBody"
    /\ done' = {}
    /\ cur' = "CallGauge"
    /\ UNCHANGED inp

GaugeReturned ==
    /\ pc = "GaugeBody"
    /\ env' = GaugeBody(inp, env)
    /\ pc' = "returned"
    /\ done' = {"GaugeBody"}
    /\ cur' = "GaugeBody"
    /\ UNCHANGED inp

NextGauge == GaugeCalled \/ GaugeReturned

SpecGauge == InitGauge /\ [][NextGauge]_vars

-----------------------------------------------------------------------------
(* The seven calculation steps in any order that the two stated            *)
(* constraints allow: LMTD before area, capacity rates before              *)
(* effectiveness and NTU.                                                  *)

Steps ==
    {"HeatDuty", "Lmtd", "Area", "CapacityRates", "Effectiveness", "Ntu",
     "HeatBalanceError"}

ClaimedPrerequisites ==
    [s \in Steps |->
        IF s = "Area" THEN {"Lmtd"}
        ELSE IF s \in {"Effectiveness", "Ntu"} THEN {"CapacityRates"}
        ELSE {}]

StepOf(s, i, e) ==
    CASE s = "HeatDuty" -> HeatDuty(i, e)
      [] s = "Lmtd" -> Lmtd(i, e)
      [] s = "Area" -> Area(i, e)
      [] s = "CapacityRates" -> CapacityRates(i, e)
      [] s = "Effectiveness" -> Effectiveness(i, e)
      [] s = "Ntu" -> Ntu(i, e)
      [] s = "HeatBalanceError" -> HeatBalanceError(i, e)

\* the inputs tried in every order
OrderInputs ==
    {i \in Inputs :
        /\ i.m_hot \in {Py(FromDec(25, 1)), Py(FZero)}
        /\ i.Th_out \in {Py(FromInt(90)), Py(FromInt(25))}
        /\ i.Tc_out \in {Py(FromInt(70)), Py(FromInt(85)), Py(FromInt(25))}}

InitOrder ==
    /\ inp \in OrderInputs
    /\ env = Fresh
    /\ pc = "any"
    /\ done = {}
    /\ cur = "none"

Reorder ==
    /\ pc = "any"
    /\ ~Raised(env)
    /\ \E s \in Steps \ done :
          /\ ClaimedPrerequisites[s] \subseteq done
          /\ env' = StepOf(s, inp, env)
          /\ done' = done \cup {s}
          /\ cur' = s
    /\ UNCHANGED <<inp, pc>>

NextOrder == Reorder

SpecOrder == InitOrder /\ [][NextOrder]_vars

-----------------------------------------------------------------------------
(* Properties.                                                             *)

Ended == pc \in {"done", "raised"}

Ran(step) == step \in done

Flip(i) ==
    [i EXCEPT !.configuration = IF @ = Counterflow THEN ParallelFlow ELSE Counterflow]

\* the run of lines 165-201 on the same inputs in the other configuration
OtherConfiguration == Calculations(Flip(inp))

SameInBoth(names) == \A n \in names : env[n] = OtherConfiguration[n]

\* C1 (as amended): on the reference counterflow input Q_hot is 627 kW and
\* Q_cold is 564.3 kW, dT1 is 80 and dT2 is 65, and the heat balance error
\* is about 10.53 per cent (between 10.52 and 10.53), not 0.
C1_ReferenceValues ==
    (inp = Defaults /\ Ended) =>
        /\ env.Q_hot = Py(FromInt(627))
        /\ env.Q_cold = Py(FromDec(5643, 1))
        /\ env.dT1 = Py(FromInt(80))
        /\ env.dT2 = Py(FromInt(65))
        /\ env.heat_balance_error.k = "py"
        /\ FGt(env.heat_balance_error.v, FromDec(1052, 2))
        /\ FLt(env.heat_balance_error.v, FromDec(1053, 2))

C1_Witness == inp = Defaults /\ pc = "done" /\ env.heat_balance_error.k = "py"

\* C1 (as claimed): on the reference counterflow input Q_hot and Q_cold are
\* both 627 kW, dT1 is 80, dT2 is 65 and the heat balance error is 0.
C1_AsClaimed ==
    (inp = Defaults /\ Ended) =>
        /\ env.Q_hot = Py(FromInt(627))
        /\ env.Q_cold = Py(FromInt(627))
        /\ env.dT1 = Py(FromInt(80))
        /\ env.dT2 = Py(FromInt(65))
        /\ env.heat_balance_error = Py(FZero)

\* C2: a finished run has the same Q_hot, Q_cold, C_min, C_max, C_ratio and
\* effectiveness as the run on the same inputs in the other configuration.
C2_ConfigurationIndependent ==
    Ended => SameInBoth({"Q_hot", "Q_cold", "C_min", "C_max", "C_ratio", "effectiveness"})

C4_ZeroIffBalanced ==
    Ran("HeatBalanceError") =>
        ((env.heat_balance_error = Py(FZero)) <=> (env.Q_hot = env.Q_cold))

Positive(x) == x.k = "py" /\ ~IsZero(x.v) /\ x.v.s = 0

DomainErrorInput(i) ==
    LET d == TemperatureDifferences(i, Fresh)
    IN \/ IsZero(d.dT1.v) \/ IsZero(d.dT2.v) \/ d.dT1.v.s # d.dT2.v.s
       \/ i.Th_in = i.Tc_in
       \/ IsZero(i.U.v)
       \/ IsZero(CapacityRates(i, Fresh).C_min.v)

Outcome ==
    IF env.exc = Str("ZeroDivisionError") THEN "uncaught ZeroDivisionError"
    ELSE IF env.exc # Str("none") THEN "uncaught exception"
    ELSE IF \E n \in Names : env[n].k \in {"nan", "inf"} THEN "non-finite result"
    ELSE "result"

\* C6: a run on a domain-error input never ends in an uncaught arithmetic
\* exception nor in results that hold a non-finite value.
C6_DomainErrorsReported ==
    (Ended /\ DomainErrorInput(inp)) =>
        Outcome \notin {"uncaught ZeroDivisionError", "non-finite result"}

\* C7: when dT1 = dT2 the LMTD step takes the fallback and LMTD is dT1, the
\* division dT1 / dT2 and the logarithm not evaluated; the logarithmic mean
\* is used only when |dT1 - dT2| >= 1e-6.
C7_DegenerateFallback ==
    Ran("Lmtd") =>
        /\ (env.dT1 = env.dT2) => (env.LMTD = env.dT1 /\ env.log_mean = Str("no"))
        /\ (env.log_mean = Str("yes")) =>
              FGe(FAbs(FSub(env.dT1.v, env.dT2.v)), FromDec(1, 6))
        /\ (env.log_mean = Str("no")) => env.LMTD = env.dT1

C7_Witness ==
    /\ Ran("Lmtd")
    /\ env.dT1 = env.dT2
    /\ ~IsZero(env.dT1.v)
    /\ env.LMTD = env.dT1

\* C8: the label is "Excellent" from 80 up, "Good" in [60, 80), "Fair" in
\* [40, 60) and "Poor" below 40, one label for every percentage, the
\* boundary values 80, 60 and 40 in the upper class.
C8_Classification ==
    (pc = "returned") =>
        LET p == env.gauge_effectiveness.v
            l == env.label.v
        IN /\ l \in {"Excellent", "Good", "Fair", "Poor"}
           /\ (l = "Excellent") <=> FGe(p, FromInt(80))
           /\ (l = "Good") <=> (FGe(p, FromInt(60)) /\ FLt(p, FromInt(80)))
           /\ (l = "Fair") <=> (FGe(p, FromInt(40)) /\ FLt(p, FromInt(60)))
           /\ (l = "Poor") <=> FLt(p, FromInt(40))

C8_Witness ==
    /\ pc = "returned"
    /\ env.gauge_effectiveness = Py(FromInt(60))
    /\ env.label = Str("Good")

RoundingUnit == Canon(0, <<1>>, 2 - Precision)

\* r is b up to the two roundings of a - (a - b) or a + (b - a)
WithinRounding(r, b, a) ==
    FLe(FAbs(FSub(r, b)),
        FMul(RoundingUnit, IF FGt(FAbs(a), FAbs(b)) THEN FAbs(a) ELSE FAbs(b)))

ProfileShape ==
    /\ Len(env.x.v) = NumPoints
    /\ Len(env.Th.v) = NumPoints
    /\ Len(env.Tc.v) = NumPoints
    /\ env.x.v[1] = FZero
    /\ env.x.v[NumPoints] = FromInt(1)
    /\ \A i \in 1..(NumPoints - 1) : FLt(env.x.v[i], env.x.v[i + 1])
    /\ env.Th.v[1] = inp.Th_in.v
    /\ env.Tc.v[1] =
         IF inp.configuration = Counterflow THEN inp.Tc_out.v ELSE inp.Tc_in.v

\* C9 (as amended): the profile has exactly 50 samples, x rising from 0 to
\* 1; the first sample is exactly (Th_in, Tc_out) for Counterflow and
\* (Th_in, Tc_in) for Parallel Flow; the last sample is (Th_out, Tc_in),
\* respectively (Th_out, Tc_out), up to floating-point rounding only.
C9_ProfileEndpoints ==
    Ran("TemperatureProfile") =>
        /\ ProfileShape
        /\ WithinRounding(env.Th.v[NumPoints], inp.Th_out.v, inp.Th_in.v)
        /\ IF inp.configuration = Counterflow
           THEN WithinRounding(env.Tc.v[NumPoints], inp.Tc_in.v, inp.Tc_out.v)
           ELSE WithinRounding(env.Tc.v[NumPoints], inp.Tc_out.v, inp.Tc_in.v)

C9_Witness ==
    /\ Ran("TemperatureProfile")
    /\ env.Th.v[NumPoints] # inp.Th_out.v
    /\ env.Th.v[1] = inp.Th_in.v

\* C9 (as claimed): the profile has the 50 samples, x rising from 0 to 1,
\* and its first and last samples are exactly the configuration's end
\* temperatures.
C9_AsClaimed ==
    Ran("TemperatureProfile") =>
        /\ ProfileShape
        /\ env.Th.v[NumPoints] = inp.Th_out.v
        /\ env.Tc.v[NumPoints] =
             IF inp.configuration = Counterflow THEN inp.Tc_in.v ELSE inp.Tc_out.v

\* what each step reads from earlier steps
Prerequisites ==
    [s \in Steps |->
        IF s = "Area" THEN {"HeatDuty", "Lmtd"}
        ELSE IF s = "Effectiveness" THEN {"HeatDuty", "CapacityRates"}
        ELSE IF s = "Ntu" THEN {"Area", "CapacityRates"}
        ELSE IF s = "HeatBalanceError" THEN {"HeatDuty"}
        ELSE {}]

Results == Names \ {"gauge_effectiveness", "label", "color", "x", "Th", "Tc"}

SameAsScriptOrder ==
    /\ (done = Steps /\ ~Raised(env)) =>
          /\ ~Raised(Calculations(inp))
          /\ \A n \in Results : env[n] = Calculations(inp)[n]
    /\ (env.exc = Str("ZeroDivisionError")) =>
          Calculations(inp).exc = Str("ZeroDivisionError")

\* C10 (as amended): the steps can run in any order in which heat duty comes
\* before area, effectiveness and balance error, LMTD before area, capacity
\* rates before effectiveness and NTU, and area before NTU: a step whose
\* prerequisites have run reads only values already computed, and the
\* outcome is that of the script's order.
C10_OrderWithDataDependencies ==
    /\ (env.exc = Str("NameError")) => ~(Prerequisites[cur] \subseteq done \ {cur})
    /\ SameAsScriptOrder

C10_Witness ==
    /\ done = Steps
    /\ ~Raised(env)
    /\ cur = "Effectiveness"

\* C10 (as claimed): in every order with LMTD before area and capacity rates
\* before effectiveness and NTU, each step reads only values already
\* computed, and the outcome is that of the script's order.
C10_AsClaimed ==
    /\ env.exc # Str("NameError")
    /\ SameAsScriptOrder

=============================================================================
